---- MODULE Spec2Model ----
(***************************************************************************)
(* Model of app.py, the Streamlit "Parcel Size Variance Explorer".          *)
(*                                                                         *)
(* One script pass (lines 206-209: check_password, then main_app) is one   *)
(* step of the model.  Between passes the browser session holds            *)
(* st.session_state and the widget state; a user interaction changes the   *)
(* widget state and queues a pass, st.rerun() ends the pass and queues     *)
(* another.                                                                *)
(*                                                                         *)
(* Numbers.  variance_acres is a float that may be NaN: a value is the     *)
(* record [nan, v].  Positive values are powers of two so that the         *)
(* logarithmic normalisation is exact.  Coordinates are exact fractions    *)
(* over the common denominator Len(gdf), so that the mean of the centroids *)
(* is exact.                                                               *)
(***************************************************************************)
EXTENDS Integers, Sequences, FiniteSets, TLC

VARIABLES
    file,            \* parcel_polygon_stat.dat as it is on disk
    cache,           \* st.cache_data of load_data: <<>> or <<gdf>>
    session_state,   \* st.session_state: a function from the keys present
    table_sel,       \* selection.rows of the "data_table" widget
    pending,         \* a script pass is queued
    clicked,         \* the button whose press queued the pass
    rendered,        \* the elements the last pass produced
    exception,       \* the exception that ended the last pass, or "none"
    scale,           \* <<vmin, vmax>> fitted by the last pass, or <<>>
    style,           \* get_color's outcome per feature in the last pass
    reruns,          \* st.rerun() calls since the last user interaction
    lastEvent        \* the last user interaction

vars == <<file, cache, session_state, table_sel, pending, clicked, rendered,
          exception, scale, style, reruns, lastEvent>>

\* Cap of the rerun counter (the counter only; the loop itself is not cut).
MaxReruns == 3

\* Zoom levels set by main_app.
OverviewZoom == 13
DetailZoom == 18

(***************************************************************************)
(* Values of variance_acres.                                               *)
(***************************************************************************)
Val(x) == [nan |-> FALSE, v |-> x]
NaN == [nan |-> TRUE, v |-> 0]

\* np.isnan(val)
isnan(val) == val.nan

\* val <= 0 on floats: False for NaN
LeZero(val) == ~val.nan /\ val.v <= 0

(***************************************************************************)
(* st.secrets["credentials"]                                               *)
(***************************************************************************)
secrets ==
    [username |-> "admin", password |-> "s3cret", encryption_key |-> "K1"]

\* What the user may type into the two text inputs.
Usernames == {"admin", "guest"}
Passwords == {"s3cret", "guess"}

(***************************************************************************)
(* The encrypted file.  A feature is its parcel number, its variance and   *)
(* its centroid (x = longitude, y = latitude) in the file's CRS.           *)
(***************************************************************************)
Feature(id, var, lat, lon) ==
    [parcelnumb |-> id, variance_acres |-> var, x |-> lon, y |-> lat]

File(key, tampered, wellformed, crs, rows) ==
    [key |-> key, tampered |-> tampered, wellformed |-> wellformed,
     crs |-> crs, rows |-> rows]

\* all positive; P1 and P2 share a latitude; not in display order
RowsPositive ==
    << Feature("P1", Val(2), 0, 0), Feature("P2", Val(8), 0, 6),
       Feature("P3", Val(1), 6, 0) >>

\* P3 and P4 share a centroid, which is also the mean of all centroids
RowsCoincident ==
    << Feature("P1", Val(4), 0, 0), Feature("P2", Val(1), 4, 4),
       Feature("P3", Val(2), 2, 2), Feature("P4", Val(2), 2, 2) >>

\* one NaN among positive values
RowsWithNaN ==
    << Feature("P1", NaN, 0, 0), Feature("P2", Val(2), 2, 0),
       Feature("P3", Val(8), 0, 2) >>

\* a negative value among positive ones
RowsSigned ==
    << Feature("P1", Val(4), 0, 0), Feature("P2", Val(-1), 2, 0),
       Feature("P3", Val(1), 0, 4) >>

\* no positive value at all
RowsNonPositive ==
    << Feature("P1", Val(0), 0, 0), Feature("P2", Val(-1), 2, 2) >>

\* RowsPositive in projected coordinates
RowsProjected ==
    << Feature("P1", Val(2), 0, 0), Feature("P2", Val(8), 0, 12),
       Feature("P3", Val(1), 12, 0) >>

Files ==
    { File("K1", FALSE, TRUE, "EPSG:4326", RowsPositive),
      File("K1", FALSE, TRUE, "EPSG:4326", RowsCoincident),
      File("K1", FALSE, TRUE, "EPSG:4326", RowsWithNaN),
      File("K1", FALSE, TRUE, "EPSG:4326", RowsSigned),
      File("K1", FALSE, TRUE, "EPSG:4326", RowsNonPositive),
      File("K1", FALSE, TRUE, "EPSG:3857", RowsProjected),
      File("K1", FALSE, TRUE, "None", RowsPositive),
      File("K2", FALSE, TRUE, "EPSG:4326", RowsPositive),
      File("K1", TRUE, TRUE, "EPSG:4326", RowsPositive),
      File("K1", FALSE, FALSE, "EPSG:4326", RowsPositive) }

(***************************************************************************)
(* load_data (lines 54-76)                                                 *)
(***************************************************************************)
Ok(value) == [ok |-> TRUE, err |-> "none", value |-> value]
Raise(err) == [ok |-> FALSE, err |-> err, value |-> <<>>]

\* A mutant: decryption without authentication of the token.
decrypt_unauthenticated(f, key) == Ok(f)

\* cipher_suite.decrypt (line 64): Fernet authenticates the token, so a wrong
\* key or a changed ciphertext raises InvalidToken.
decrypt(f, key) ==
    IF f.key = key /\ ~f.tampered THEN Ok(f) ELSE Raise("InvalidToken")

\* gpd.read_file (lines 68-69)
read_file(f) ==
    IF f.wellformed THEN Ok([crs |-> f.crs, rows |-> f.rows])
    ELSE Raise("DataSourceError")

\* gdf.to_crs(epsg=4326) (lines 72-73); projected coordinates lie on a grid
\* twice as fine as the geographic one, naive geometries cannot be transformed.
to_crs(g) ==
    IF g.crs = "None" THEN Raise("ValueError")
    ELSE Ok([crs |-> "EPSG:4326",
             rows |-> [i \in DOMAIN g.rows |->
                         [g.rows[i] EXCEPT !.x = @ \div 2, !.y = @ \div 2]]])

\* a sorts before b in sort_values(ascending=False): NaN last
Before(a, b) == ~a.nan /\ (b.nan \/ a.v > b.v)

\* sort_values(by="variance_acres", ascending=False).reset_index(drop=True)
\* (line 75): a row's place is the number of rows that sort before it, rows
\* with equal keys keeping their order
sort_values(rows) ==
    LET n == Len(rows)
        Precedes(i, j) ==
            \/ Before(rows[i].variance_acres, rows[j].variance_acres)
            \/ /\ ~Before(rows[j].variance_acres, rows[i].variance_acres)
               /\ i < j
        Rank(i) == Cardinality({j \in 1 .. n : Precedes(j, i)}) + 1
    IN  [k \in 1 .. n |-> rows[CHOOSE i \in 1 .. n : Rank(i) = k]]

\* The body of load_data, run on a cache miss.
load_data_uncached(f) ==
    LET dec == decrypt(f, secrets.encryption_key)
    IN  IF ~dec.ok THEN dec
        ELSE LET parsed == read_file(dec.value)
             IN  IF ~parsed.ok THEN parsed
                 ELSE LET g == IF parsed.value.crs # "EPSG:4326"
                               THEN to_crs(parsed.value)
                               ELSE parsed
                      IN  IF ~g.ok THEN g
                          ELSE Ok(sort_values(g.value.rows))

\* @st.cache_data (line 54): a returned value is kept, an exception is not
load_data(c, f) == IF c # <<>> THEN Ok(c[1]) ELSE load_data_uncached(f)

(***************************************************************************)
(* Centroids (lines 87-88, 185-186), as fractions over Len(gdf).           *)
(***************************************************************************)
\* the sum of the centroids' latitudes
SumLat(gdf) ==
    LET S[i \in 0 .. Len(gdf)] == IF i = 0 THEN 0 ELSE S[i - 1] + gdf[i].y
    IN  S[Len(gdf)]

\* the sum of the centroids' longitudes
SumLon(gdf) ==
    LET S[i \in 0 .. Len(gdf)] == IF i = 0 THEN 0 ELSE S[i - 1] + gdf[i].x
    IN  S[Len(gdf)]

\* [gdf.geometry.centroid.y.mean(), gdf.geometry.centroid.x.mean()]
MeanCenter(gdf) == <<SumLat(gdf), SumLon(gdf)>>

\* gdf.iloc[idx]: idx counts from 0
iloc(gdf, idx) == gdf[idx + 1]

\* [target_lat, target_lon] of a parcel
Target(gdf, parcel) == <<Len(gdf) * parcel.y, Len(gdf) * parcel.x>>

(***************************************************************************)
(* The colour scale (lines 108-119)                                        *)
(***************************************************************************)
Finite(gdf) == {i \in DOMAIN gdf : ~gdf[i].variance_acres.nan}

\* Series.min() and Series.max() skip NaN and nothing else
SeriesMin(gdf) ==
    IF Finite(gdf) = {} THEN NaN
    ELSE LET i == CHOOSE i \in Finite(gdf) : \A j \in Finite(gdf) :
                      gdf[i].variance_acres.v <= gdf[j].variance_acres.v
         IN  gdf[i].variance_acres

SeriesMax(gdf) ==
    IF Finite(gdf) = {} THEN NaN
    ELSE LET i == CHOOSE i \in Finite(gdf) : \A j \in Finite(gdf) :
                      gdf[i].variance_acres.v >= gdf[j].variance_acres.v
         IN  gdf[i].variance_acres

\* vmin, vmax of line 109
Fit(gdf) == <<SeriesMin(gdf), SeriesMax(gdf)>>

RECURSIVE Log2(_)
Log2(n) == IF n <= 1 THEN 0 ELSE 1 + Log2(n \div 2)

InvalidColor == [hex |-> "#cccccc", lut |-> -1]
Gradient(i) == [hex |-> "RdYlGn", lut |-> i]
Raised == [hex |-> "ValueError", lut |-> -1]

\* colors.to_hex(colormap(norm(val))) for val > 0 (lines 110, 112, 118-119).
\* LogNorm raises ValueError when log(vmin) or log(vmax) is not finite, gives
\* 0 when vmin = vmax, and else the position of log(val) between the two;
\* the colormap looks the position up in its 256 entries.
norm_color(val, vmin, vmax) ==
    IF vmin.nan \/ vmax.nan \/ vmin.v <= 0 \/ vmax.v <= 0 THEN Raised
    ELSE IF vmin.v = vmax.v THEN Gradient(0)
    ELSE LET num == Log2(val.v) - Log2(vmin.v)
             den == Log2(vmax.v) - Log2(vmin.v)
         IN  IF num >= den THEN Gradient(255)
             ELSE IF num <= 0 THEN Gradient(0)
             ELSE Gradient((num * 256) \div den)

\* get_color (lines 114-119)
get_color(val, vmin, vmax) ==
    IF LeZero(val) \/ isnan(val) THEN InvalidColor
    ELSE norm_color(val, vmin, vmax)

\* The style function of the second layer (lines 141-161) over the features
\* in order: the first call that raises ends the pass.
StyleLayer(gdf, vmin, vmax) ==
    LET all == [i \in DOMAIN gdf |->
                   get_color(gdf[i].variance_acres, vmin, vmax)]
        bad == {i \in DOMAIN gdf : all[i] = Raised}
    IN  IF bad = {} THEN all
        ELSE SubSeq(all, 1, CHOOSE i \in bad : \A j \in bad : i <= j)

(***************************************************************************)
(* st.session_state                                                        *)
(***************************************************************************)
EmptyState == [k \in {} |-> FALSE]

\* key in st.session_state
Has(ss, k) == k \in DOMAIN ss

\* st.session_state[k] = v
Put(ss, k, v) == (k :> v) @@ ss

\* del st.session_state[k] for each k of keys
Del(ss, keys) == [k \in DOMAIN ss \ keys |-> ss[k]]

\* st.text_input(..., key=...) (lines 39-40, 46-47): a widget that has no
\* state yet enters session_state with the empty string
WithTextInputs(ss) == ss @@ ("username" :> "") @@ ("password" :> "")

\* A mutant: either field matching is enough.
CredentialsMatchEither(u, p) == u = secrets.username \/ p = secrets.password

\* the condition of lines 28-31
CredentialsMatch(u, p) == u = secrets.username /\ p = secrets.password

\* password_entered (lines 27-36)
password_entered(ss) ==
    IF CredentialsMatch(ss["username"], ss["password"])
    THEN Del(Put(ss, "password_correct", TRUE), {"password", "username"})
    ELSE Put(ss, "password_correct", FALSE)

\* st.session_state["password_correct"] is present and True
PasswordCorrect == Has(session_state, "password_correct")
                   /\ session_state["password_correct"]

\* Lines 85-90: the first pass of main_app creates the view.
InitView(ss, gdf) ==
    IF ~Has(ss, "map_center")
    THEN Put(Put(ss, "map_center", MeanCenter(gdf)), "map_zoom", OverviewZoom)
    ELSE ss

\* A mutant: the comparison looks at the latitude only.
CenterChangedLatOnly(center, target) == center[1] # target[1]

\* A mutant: no comparison, every reported selection recentres and reruns.
CenterChangedAlways(center, target) == TRUE

\* st.session_state.map_center != [target_lat, target_lon] (line 189)
CenterChanged(center, target) == center # target

\* A mutant: the selection recentres and keeps the zoom.
SelectViewKeepZoom(ss, target) == Put(ss, "map_center", target)

\* lines 190-191
SelectView(ss, target) ==
    Put(Put(ss, "map_center", target), "map_zoom", DetailZoom)

\* st.rerun(): the counter stops at its cap
Bump(n) == IF n < MaxReruns THEN n + 1 ELSE n

LoginWidgets == {"username_input", "password_input", "login_button"}

(***************************************************************************)
(* The script pass (lines 206-209)                                         *)
(***************************************************************************)
\* A pass that ends before the table is drawn leaves no table widget, and
\* Streamlit drops the state of a widget that a pass did not draw.
NoApp ==
    /\ table_sel' = <<>>
    /\ scale' = <<>>
    /\ style' = <<>>

\* check_password, lines 38-44: no login attempt yet
LoginForm ==
    LET ss == WithTextInputs(session_state)
    IN  /\ rendered' = LoginWidgets
        /\ exception' = "none"
        /\ NoApp
        /\ cache' = cache
        /\ IF clicked = "Login"
           THEN /\ session_state' = password_entered(ss)
                /\ pending' = TRUE
                /\ reruns' = Bump(reruns)
           ELSE /\ session_state' = ss
                /\ pending' = FALSE
                /\ reruns' = reruns

\* check_password, lines 45-50: password_correct is False; the result of
\* st.button("Login") is not looked at
LoginError ==
    /\ session_state' = WithTextInputs(session_state)
    /\ rendered' = LoginWidgets \cup {"error"}
    /\ exception' = "none"
    /\ NoApp
    /\ cache' = cache
    /\ pending' = FALSE
    /\ reruns' = reruns

\* main_app (lines 79-203); each local is bound to its one value
main_app ==
    \E loaded \in {load_data(cache, file)} :
        IF ~loaded.ok
        THEN \* line 82 raises: the pass ends there
             /\ rendered' = {"title", "exception"}
             /\ exception' = loaded.err
             /\ NoApp
             /\ UNCHANGED <<cache, session_state, reruns>>
             /\ pending' = FALSE
        ELSE
          \E gdf \in {loaded.value} :
          \E ss \in {InitView(session_state, gdf)}, fit \in {Fit(gdf)} :
          \E layer \in {StyleLayer(gdf, fit[1], fit[2])} :
              /\ cache' = <<gdf>>
              /\ scale' = fit
              /\ style' = layer
              /\ IF Len(layer) > 0 /\ layer[Len(layer)] = Raised
                 THEN \* the style function raises (lines 141-163)
                      /\ rendered' = {"title", "exception"}
                      /\ exception' = "ValueError"
                      /\ table_sel' = <<>>
                      /\ session_state' = ss
                      /\ pending' = FALSE
                      /\ reruns' = reruns
                 ELSE
                   /\ exception' = "none"
                   /\ table_sel' = table_sel
                   /\ IF /\ Len(table_sel) > 0
                         /\ CenterChanged(ss["map_center"],
                                Target(gdf, iloc(gdf, table_sel[1])))
                      THEN \* lines 190-192
                           /\ session_state' =
                                SelectView(ss, Target(gdf, iloc(gdf, table_sel[1])))
                           /\ rendered' = {"title", "map", "legend", "table"}
                           /\ pending' = TRUE
                           /\ reruns' = Bump(reruns)
                      ELSE IF clicked = "Logout"
                      THEN \* lines 198-200
                           /\ session_state' = Put(ss, "password_correct", FALSE)
                           /\ rendered' = {"title", "map", "legend", "table",
                                           "logout_button"}
                           /\ pending' = TRUE
                           /\ reruns' = Bump(reruns)
                      ELSE /\ session_state' = ss
                           /\ rendered' = {"title", "map", "legend", "table",
                                           "logout_button", "download"}
                           /\ pending' = FALSE
                           /\ reruns' = reruns

\* One run of the script.
RunScript ==
    /\ pending
    /\ IF ~Has(session_state, "password_correct") THEN LoginForm
       ELSE IF ~session_state["password_correct"] THEN LoginError
       ELSE main_app
    /\ clicked' = "none"
    /\ UNCHANGED <<file, lastEvent>>

(***************************************************************************)
(* User interactions: each changes widget state and queues a pass.         *)
(***************************************************************************)
Interact(event, button) ==
    /\ ~pending
    /\ pending' = TRUE
    /\ clicked' = button
    /\ reruns' = 0
    /\ lastEvent' = event
    /\ UNCHANGED <<file, cache, rendered, exception, scale, style>>

TypeUsername ==
    /\ Interact("type", "none")
    /\ "username_input" \in rendered
    /\ \E u \in Usernames :
          /\ session_state["username"] # u
          /\ session_state' = [session_state EXCEPT !["username"] = u]
    /\ UNCHANGED table_sel

TypePassword ==
    /\ Interact("type", "none")
    /\ "password_input" \in rendered
    /\ \E p \in Passwords :
          /\ session_state["password"] # p
          /\ session_state' = [session_state EXCEPT !["password"] = p]
    /\ UNCHANGED table_sel

PressLogin ==
    /\ Interact("login", "Login")
    /\ "login_button" \in rendered
    /\ UNCHANGED <<session_state, table_sel>>

\* the table reports indices into the rows it shows (selection_mode
\* "single-row", lines 172-178)
SelectRow ==
    /\ Interact("select", "none")
    /\ "table" \in rendered
    /\ \E idx \in 0 .. (Len(cache[1]) - 1) :
          /\ table_sel # <<idx>>
          /\ table_sel' = <<idx>>
    /\ UNCHANGED session_state

DeselectRow ==
    /\ Interact("deselect", "none")
    /\ "table" \in rendered
    /\ table_sel # <<>>
    /\ table_sel' = <<>>
    /\ UNCHANGED session_state

\* panning or zooming the st_folium component (line 163) reruns the script;
\* what it reports is not read
MoveMap ==
    /\ Interact("map", "none")
    /\ "map" \in rendered
    /\ UNCHANGED <<session_state, table_sel>>

PressLogout ==
    /\ Interact("logout", "Logout")
    /\ "logout_button" \in rendered
    /\ UNCHANGED <<session_state, table_sel>>

Init ==
    /\ file \in Files
    /\ cache = <<>>
    /\ session_state = EmptyState
    /\ table_sel = <<>>
    /\ pending = TRUE
    /\ clicked = "none"
    /\ rendered = {}
    /\ exception = "none"
    /\ scale = <<>>
    /\ style = <<>>
    /\ reruns = 0
    /\ lastEvent = "open"

Next ==
    \/ RunScript
    \/ TypeUsername
    \/ TypePassword
    \/ PressLogin
    \/ SelectRow
    \/ DeselectRow
    \/ MoveMap
    \/ PressLogout

Spec == Init /\ [][Next]_vars

\* Streamlit runs every queued pass.
FairSpec == Spec /\ WF_vars(RunScript)

(***************************************************************************)
(* Vocabulary of the properties.                                           *)
(***************************************************************************)
\* the dataset main_app works on
Gdf == cache[1]

HasView(ss) == Has(ss, "map_center") /\ Has(ss, "map_zoom")

View(ss) == <<ss["map_center"], ss["map_zoom"]>>

\* the centre the reported row asks for
SelectedTarget(gdf, sel) == Target(gdf, iloc(gdf, sel[1]))

IsUnselected(ss, gdf) == View(ss) = <<MeanCenter(gdf), OverviewZoom>>

IsSelected(ss, gdf) ==
    /\ ss["map_zoom"] = DetailZoom
    /\ \E i \in DOMAIN gdf : ss["map_center"] = Target(gdf, gdf[i])

\* a pass of the main app that has a reported row to reconcile
SelectionPass == pending /\ PasswordCorrect /\ Len(table_sel) > 0

\* the file cannot be decrypted, parsed or reprojected
FileBad ==
    \/ file.key # secrets.encryption_key
    \/ file.tampered
    \/ ~file.wellformed
    \/ file.crs = "None"

AppElements == {"map", "legend", "table", "logout_button", "download"}

Positive(val) == ~val.nan /\ val.v > 0

PositiveRows(gdf) == SelectSeq(gdf, LAMBDA r : Positive(r.variance_acres))

(***************************************************************************)
(* C1.  Anti-loop guard: a pass that handles a reported row whose centroid *)
(* equals the current centre leaves map_center and map_zoom as they are    *)
(* and requests no rerun.                                                  *)
(***************************************************************************)
C1_AntiLoop ==
    [][ (SelectionPass
         /\ SelectedTarget(Gdf, table_sel) = session_state["map_center"])
        => /\ View(session_state') = View(session_state)
           /\ (clicked # "Logout" => ~pending' /\ reruns' = reruns) ]_vars

\* a selection event was handled without any rerun
C1_Witness ==
    /\ lastEvent = "select"
    /\ ~pending
    /\ reruns = 0
    /\ Len(table_sel) > 0
    /\ View(session_state) = <<SelectedTarget(Gdf, table_sel), DetailZoom>>

(***************************************************************************)
(* C2.  A pass that handles a reported row whose centroid differs from the *)
(* current centre moves map_center to that centroid, sets map_zoom to 18   *)
(* and requests exactly one rerun.                                         *)
(***************************************************************************)
C2_SelectTransitions ==
    [][ (SelectionPass
         /\ SelectedTarget(Gdf, table_sel) # session_state["map_center"])
        => /\ View(session_state') =
                 <<SelectedTarget(Gdf, table_sel), DetailZoom>>
           /\ pending'
           /\ reruns' = 1 ]_vars

\* a selection has just recentred the map and asked for its one rerun
C2_Witness ==
    /\ lastEvent = "select"
    /\ pending
    /\ reruns = 1
    /\ PasswordCorrect
    /\ View(session_state) = <<SelectedTarget(Gdf, table_sel), DetailZoom>>

(***************************************************************************)
(* C3.  Redraw loop termination: with the table reporting the same row on  *)
(* every pass, a selection event is followed by at most one rerun and the  *)
(* passes it queues end in a pass that requests none.                      *)
(***************************************************************************)
C3_RedrawTerminates ==
    /\ [](lastEvent = "select" => reruns <= 1)
    /\ (lastEvent = "select" /\ pending) ~> (lastEvent = "select" /\ ~pending)

\* the quiescent pass after the one rerun of a selection
C3_Witness ==
    /\ lastEvent = "select"
    /\ ~pending
    /\ reruns = 1
    /\ "download" \in rendered

(***************************************************************************)
(* C4.  Logout discards the ViewState: while the gate is closed after a    *)
(* logout, session_state holds neither map_center nor map_zoom.            *)
(***************************************************************************)
C4_LogoutDiscardsView ==
    (Has(session_state, "password_correct") /\ ~PasswordCorrect)
    => (~Has(session_state, "map_center") /\ ~Has(session_state, "map_zoom"))

(***************************************************************************)
(* C5.  Authentication failure is recoverable: once the pass of a Login    *)
(* press made with the configured username and password has run, the       *)
(* session is authenticated.                                               *)
(***************************************************************************)
C5_LoginRecovers ==
    ( /\ lastEvent = "login"
      /\ ~pending
      /\ Has(session_state, "username")
      /\ Has(session_state, "password")
      /\ session_state["username"] = secrets.username
      /\ session_state["password"] = secrets.password )
    => PasswordCorrect

(***************************************************************************)
(* C6.  Dataset-load failure is a hard failure: a pass of the main app on  *)
(* a file that cannot be decrypted, parsed or reprojected ends with the    *)
(* exception, yields no dataset, draws no map, table or export, leaves     *)
(* session_state as it was and queues no further pass.                     *)
(***************************************************************************)
C6_LoadFailureAborts ==
    [][ (pending /\ PasswordCorrect /\ FileBad)
        => /\ exception' \in {"InvalidToken", "DataSourceError", "ValueError"}
           /\ cache' = <<>>
           /\ rendered' \cap AppElements = {}
           /\ session_state' = session_state
           /\ ~pending' ]_vars

\* a pass of the main app ended with the decryption error
C6_Witness ==
    /\ PasswordCorrect
    /\ ~pending
    /\ exception = "InvalidToken"
    /\ ~HasView(session_state)

(***************************************************************************)
(* C7.  In logarithmic mode vmin and vmax are fitted over the finite       *)
(* positive values only: where a positive value exists, the fitted scale   *)
(* equals the scale fitted without the non-positive and NaN records.       *)
(***************************************************************************)
C7_ScaleOverPositive ==
    (scale # <<>> /\ PositiveRows(Gdf) # <<>>) => scale = Fit(PositiveRows(Gdf))

(***************************************************************************)
(* C8.  get_color gives the neutral colour #cccccc to every non-positive   *)
(* or NaN value and a gradient colour to every positive value.             *)
(***************************************************************************)
C8_ColorPolicy ==
    \A i \in DOMAIN style :
        IF Positive(Gdf[i].variance_acres)
        THEN style[i].hex = "RdYlGn"
        ELSE style[i] = InvalidColor

(***************************************************************************)
(* C9.  Authentication gate: a pass draws elements of the main app only    *)
(* when password_correct is True, and password_correct becomes True only   *)
(* in the pass of a Login press whose username and password both equal the *)
(* configured credentials.                                                 *)
(***************************************************************************)
C9_GateSafety ==
    [][ /\ (pending /\ rendered' \cap ({"title"} \cup AppElements) # {})
              => PasswordCorrect
        /\ (~PasswordCorrect /\ PasswordCorrect')
              => /\ pending
                 /\ clicked = "Login"
                 /\ session_state["username"] = secrets.username
                 /\ session_state["password"] = secrets.password ]_vars

\* the main app is shown after a correct submission
C9_Witness ==
    /\ PasswordCorrect
    /\ lastEvent = "login"
    /\ "download" \in rendered

(***************************************************************************)
(* C10.  Every stored view is Unselected (mean of the centroids, zoom 13)  *)
(* or Selected (centroid of a record, zoom 18); a Selected view stays      *)
(* Selected; a pass with a reported row ends centred on that row; a pass   *)
(* with an empty selection leaves centre and zoom as they are.             *)
(***************************************************************************)
C10_ViewStates ==
    [][ /\ HasView(session_state')
              => IsUnselected(session_state', cache'[1])
                 \/ IsSelected(session_state', cache'[1])
        /\ (HasView(session_state) /\ IsSelected(session_state, Gdf))
              => IsSelected(session_state', cache'[1])
        /\ SelectionPass
              => session_state'["map_center"] = SelectedTarget(Gdf, table_sel)
        /\ (pending /\ HasView(session_state) /\ table_sel = <<>>)
              => View(session_state') = View(session_state) ]_vars

\* a deselection was handled and the view is still Selected
C10_Witness ==
    /\ lastEvent = "deselect"
    /\ ~pending
    /\ table_sel = <<>>
    /\ HasView(session_state)
    /\ IsSelected(session_state, Gdf)

====
